---- MODULE Spec2Model ----
(***************************************************************************)
(* MoCo tutorial notebook (tutorial_moco_memory_bank.ipynb): the MocoModel *)
(* training step with momentum encoder, batch shuffle and memory bank, the *)
(* training driver around it, and the linear Classifier trained on the     *)
(* backbone afterwards.                                                    *)
(*                                                                         *)
(* Parameter tensors are modelled by one exact rational each, <<n, d>>     *)
(* with d > 0 in lowest terms; <<0, 0>> is a non-finite value (NaN/Inf).   *)
(***************************************************************************)
EXTENDS Integers, Sequences, FiniteSets, TLC

\* ---- bounds of the model ------------------------------------------------
MaxBatch == 4
MaxBank == 6
MaxSteps == 3
MaxClsSteps == 2
MaxValBatches == 2

\* ---- program constants --------------------------------------------------
\* update_momentum(..., 0.99) = MomentumNum / MomentumDen
MomentumNum == 99
MomentumDen == 100

\* ---- exact arithmetic on parameter values ---------------------------------
RECURSIVE GCD(_, _)
GCD(a, b) == IF b = 0 THEN a ELSE GCD(b, a % b)

Abs(a) == IF a < 0 THEN -a ELSE a

NaN == <<0, 0>>

\* a parameter's .grad before any backward pass, a metric never logged
None == <<>>

IsFinite(v) == v[2] # 0

Rat(n, d) ==
    IF d = 0 THEN NaN
    ELSE LET g == GCD(Abs(n), Abs(d))
             s == IF d < 0 THEN -1 ELSE 1
         IN  <<s * (n \div g), s * (d \div g)>>

RMul(a, b) ==
    IF ~IsFinite(a) \/ ~IsFinite(b) THEN NaN
    ELSE LET g1 == GCD(Abs(a[1]), b[2])
             g2 == GCD(Abs(b[1]), a[2])
         IN  IF a[1] = 0 \/ b[1] = 0 THEN <<0, 1>>
             ELSE Rat((a[1] \div g1) * (b[1] \div g2),
                      (a[2] \div g2) * (b[2] \div g1))

RAdd(a, b) ==
    IF ~IsFinite(a) \/ ~IsFinite(b) THEN NaN
    ELSE LET g == GCD(a[2], b[2])
             l == (a[2] \div g) * b[2]
         IN  Rat(a[1] * (l \div a[2]) + b[1] * (l \div b[2]), l)

RNeg(a) == IF IsFinite(a) THEN <<-a[1], a[2]>> ELSE NaN

Zero == <<0, 1>>
One == <<1, 1>>

\* ---- names of the parameter-carrying modules ------------------------------
QueryModules == {"backbone", "projection_head"}
KeyModules == {"backbone_momentum", "projection_head_momentum"}
MocoModules == QueryModules \cup KeyModules

VARIABLES
    pc,               \* position of the notebook / training driver
    memory_bank_size, \* configuration cell
    batch_size,       \* configuration cell
    param,            \* module name -> value of its parameter
    requires_grad,    \* module name -> gradient-tracking flag
    grad,             \* module name -> .grad of its parameter ("None" or a value)
    training,         \* module name -> nn.Module.training flag
    bn_tracked,       \* backbone name -> number of batch-norm running-stat updates
    optim_params,     \* parameters registered with the optimizer in use
    bank_size,        \* capacity the criterion was constructed with
    bank,             \* memory bank of the criterion
    global_step,      \* optimizer steps done by trainer.fit(model, ...)
    x_q, x_k,         \* the two views of the current batch
    q, k,             \* query and key embeddings of the current step
    negatives,        \* negatives the loss used, per sample
    loss,             \* loss of the current step
    shuffle,          \* permutation drawn by batch_shuffle in the current step
    ema_calls,        \* update_momentum calls per key module in this fit
    key_before,       \* key parameters on entry to the current training step
    inserted,         \* every key embedding handed to the criterion, in order
    val_due,          \* the classifier trainer owes a validation pass
    outputs,          \* validation_step results of the running validation pass
    val_acc           \* last value logged as "val_acc"

vars == <<pc, memory_bank_size, batch_size, param, requires_grad, grad,
          training, bn_tracked, optim_params, bank_size, bank, global_step,
          x_q, x_k, q, k, negatives, loss, shuffle, ema_calls, key_before,
          inserted, val_due, outputs, val_acc>>

\* state of the classifier's validation loop
valvars == <<val_due, outputs, val_acc>>

\* ---- helpers of the lightly library used by the notebook ------------------
RSub(a, b) == RAdd(a, RNeg(b))

\* lightly.models.utils.deactivate_requires_grad(model)
deactivate_requires_grad(flags, names) ==
    [n \in DOMAIN flags |-> IF n \in names THEN FALSE ELSE flags[n]]

\* lightly.models.utils.update_momentum(model, model_ema, m), one parameter:
\* model_ema = model_ema * m + (1 - m) * model
update_momentum(model, model_ema, m) ==
    RAdd(RMul(m, model_ema), RMul(RSub(One, m), model))

\* lightly.models.utils.batch_shuffle(batch) with the permutation it drew
batch_shuffle(batch, perm) ==
    [i \in 1..Len(batch) |-> batch[perm[i]]]

\* lightly.models.utils.batch_unshuffle(batch, shuffle)
batch_unshuffle(batch, perm) ==
    LET unshuffle == [j \in 1..Len(batch) |->
                         CHOOSE i \in 1..Len(batch) : perm[i] = j]
    IN  [j \in 1..Len(batch) |-> batch[unshuffle[j]]]

\* NTXentLoss(memory_bank_size=size): the sizes the constructor accepts
NTXentLossAccepts(size) == size >= 0

\* the last n elements of a sequence
LastN(s, n) ==
    IF Len(s) <= n THEN s ELSE SubSeq(s, Len(s) - n + 1, Len(s))

\* memory bank after a batch has been appended: oldest entries evicted first
Enqueue(b, batch, size) == LastN(b \o batch, size)

\* negatives of sample i: the other keys of the batch, then the bank content
NegativesOf(i, out1, b) ==
    SubSeq(out1, 1, i - 1) \o SubSeq(out1, i + 1, Len(out1)) \o b

AllFinite(embs) == \A i \in 1..Len(embs) : embs[i].finite

\* NTXentLoss.forward(out0, out1) on a bank b of capacity size: the
\* negatives it compares against, the loss, and the bank it leaves
NTXentLoss(out0, out1, b, size) ==
    [negatives |-> [i \in 1..Len(out0) |-> NegativesOf(i, out1, b)],
     loss      |-> IF AllFinite(out0) /\ AllFinite(out1) THEN "finite" ELSE "nan",
     bank      |-> Enqueue(b, out1, size)]

\* ---- the networks -----------------------------------------------------------
\* embedding of one image view produced with backbone value bb and head value ph
Encode(x, bb, ph, ok) ==
    [img |-> x.img, view |-> x.view, bb |-> bb, ph |-> ph,
     finite |-> ok /\ IsFinite(bb) /\ IsFinite(ph)]

Forward(xs, bb, ph, ok) == [i \in 1..Len(xs) |-> Encode(xs[i], bb, ph, ok)]

\* the steps a backward pass and the optimizer can give a parameter
Deltas == {<<-1, 1>>, <<1, 1>>}

Momentum == Rat(MomentumNum, MomentumDen)

\* the query-side module a key-side module was deep-copied from
QueryOf(name) ==
    IF name = "backbone_momentum" THEN "backbone" ELSE "projection_head"

\* ---- the notebook before `model = MocoModel()` ------------------------------
Init ==
    /\ pc = "notebook"
    /\ memory_bank_size \in -1..MaxBank
    /\ batch_size \in 1..MaxBatch
    /\ param = <<>>
    /\ requires_grad = <<>>
    /\ grad = <<>>
    /\ training = <<>>
    /\ bn_tracked = <<>>
    /\ optim_params = {}
    /\ bank_size = 0
    /\ bank = <<>>
    /\ global_step = 0
    /\ x_q = <<>>
    /\ x_k = <<>>
    /\ q = <<>>
    /\ k = <<>>
    /\ negatives = <<>>
    /\ loss = "none"
    /\ shuffle = <<>>
    /\ ema_calls = [n \in KeyModules |-> 0]
    /\ key_before = <<>>
    /\ inserted = <<>>
    /\ val_due = FALSE
    /\ outputs = <<>>
    /\ val_acc = None

\* ---- MocoModel.__init__ -------------------------------------------------------
\* the key modules are deep copies of the query modules, with gradients off
MocoParameters ==
    LET fresh == [n \in QueryModules |-> IF n = "backbone" THEN Zero ELSE One]
    IN  [n \in MocoModules |->
            IF n \in QueryModules THEN fresh[n] ELSE fresh[QueryOf(n)]]

\* deactivate_requires_grad left out for the key modules
MocoRequiresGrad_allTracked == [n \in MocoModules |-> TRUE]

MocoRequiresGrad ==
    deactivate_requires_grad(
        deactivate_requires_grad([n \in MocoModules |-> TRUE],
                                 {"backbone_momentum"}),
        {"projection_head_momentum"})

\* the batch size handed over as the capacity
CriterionSize_batch == batch_size

\* the capacity handed to NTXentLoss(temperature=0.1, memory_bank_size=...)
CriterionSize == memory_bank_size

\* the constructor with the criterion's complaint swallowed
MocoModel_init_unchecked ==
    /\ pc = "notebook"
    /\ param' = MocoParameters
    /\ requires_grad' = MocoRequiresGrad
    /\ grad' = [n \in MocoModules |-> None]
    /\ training' = [n \in MocoModules |-> TRUE]
    /\ bn_tracked' = [n \in {"backbone", "backbone_momentum"} |-> 0]
    /\ bank_size' = CriterionSize
    /\ bank' = <<>>
    /\ pc' = "constructed"
    /\ UNCHANGED <<valvars, memory_bank_size, batch_size, optim_params,
                   global_step, x_q, x_k, q, k, negatives, loss, shuffle,
                   ema_calls, key_before, inserted>>

MocoModel_init ==
    /\ pc = "notebook"
    /\ IF NTXentLossAccepts(CriterionSize)
       THEN /\ param' = MocoParameters
            /\ requires_grad' = MocoRequiresGrad
            /\ grad' = [n \in MocoModules |-> None]
            /\ training' = [n \in MocoModules |-> TRUE]
            /\ bn_tracked' = [n \in {"backbone", "backbone_momentum"} |-> 0]
            /\ bank_size' = CriterionSize
            /\ bank' = <<>>
            /\ pc' = "constructed"
       ELSE /\ pc' = "error"
            /\ UNCHANGED <<param, requires_grad, grad, training, bn_tracked,
                           bank_size, bank>>
    /\ UNCHANGED <<valvars, memory_bank_size, batch_size, optim_params,
                   global_step, x_q, x_k, q, k, negatives, loss, shuffle,
                   ema_calls, key_before, inserted>>

\* ---- MocoModel.configure_optimizers: torch.optim.SGD(self.parameters(), ...) --
MocoConfigureOptimizers == DOMAIN param

\* ---- trainer.fit(model, dataloader_train_moco): start of the loop ------------
MocoFit ==
    /\ pc = "constructed"
    /\ optim_params' = MocoConfigureOptimizers
    /\ training' = [n \in DOMAIN training |-> TRUE]
    /\ global_step' = 0
    /\ pc' = "fetch"
    /\ UNCHANGED <<valvars, memory_bank_size, batch_size, param, requires_grad, grad,
                   bn_tracked, bank_size, bank, x_q, x_k, q, k, negatives,
                   loss, shuffle, ema_calls, key_before, inserted>>

\* the batch the data loader yields at a step: batch_size images, two views each
\* (drop_last=True: every batch is full)
Views(step, view) ==
    [i \in 1..batch_size |-> [img |-> step * batch_size + i, view |-> view]]

\* training_step: (x_q, x_k), _, _ = batch
MocoFetchBatch ==
    /\ pc = "fetch"
    /\ x_q' = Views(global_step, "q")
    /\ x_k' = Views(global_step, "k")
    /\ key_before' = [n \in KeyModules |-> param[n]]
    /\ pc' = "update_momentum"
    /\ UNCHANGED <<valvars, memory_bank_size, batch_size, param, requires_grad, grad,
                   training, bn_tracked, optim_params, bank_size, bank,
                   global_step, q, k, negatives, loss, shuffle, ema_calls,
                   inserted>>

\* the projection head updated with the library default 0.999 instead
MomentumUpdated_otherHead ==
    LET p1 == [param EXCEPT !["backbone_momentum"] =
                   update_momentum(param["backbone"], @, Momentum)]
    IN  [p1 EXCEPT !["projection_head_momentum"] =
             update_momentum(p1["projection_head"], @, Rat(999, 1000))]

\* training_step: the two update_momentum calls
MomentumUpdated ==
    LET p1 == [param EXCEPT !["backbone_momentum"] =
                   update_momentum(param["backbone"], @, Momentum)]
    IN  [p1 EXCEPT !["projection_head_momentum"] =
             update_momentum(p1["projection_head"], @, Momentum)]

\* the step without its momentum update
MocoUpdateMomentum_skipped ==
    /\ pc = "update_momentum"
    /\ pc' = "queries"
    /\ UNCHANGED <<valvars, memory_bank_size, batch_size, param, requires_grad,
                   grad, training, bn_tracked, optim_params, bank_size, bank,
                   global_step, x_q, x_k, q, k, negatives, loss, shuffle,
                   ema_calls, key_before, inserted>>

MocoUpdateMomentum ==
    /\ pc = "update_momentum"
    /\ param' = MomentumUpdated
    /\ ema_calls' = [n \in KeyModules |-> ema_calls[n] + 1]
    /\ pc' = "queries"
    /\ UNCHANGED <<valvars, memory_bank_size, batch_size, requires_grad, grad, training,
                   bn_tracked, optim_params, bank_size, bank, global_step,
                   x_q, x_k, q, k, negatives, loss, shuffle, key_before,
                   inserted>>

\* a forward pass through a backbone in training mode updates the running
\* statistics of its (split) batch-norm layers
Tracked(name) ==
    [bn_tracked EXCEPT ![name] = IF training[name] THEN @ + 1 ELSE @]

\* training_step: q = projection_head(backbone(x_q).flatten(start_dim=1))
\* (ok: whether the floating-point forward pass stayed finite)
MocoQueries ==
    /\ pc = "queries"
    /\ \E ok \in BOOLEAN :
          q' = Forward(x_q, param["backbone"], param["projection_head"], ok)
    /\ bn_tracked' = Tracked("backbone")
    /\ pc' = "keys"
    /\ UNCHANGED <<valvars, memory_bank_size, batch_size, param, requires_grad, grad,
                   training, optim_params, bank_size, bank, global_step,
                   x_q, x_k, k, negatives, loss, shuffle, ema_calls,
                   key_before, inserted>>

\* the key branch without batch_unshuffle
KeyBranch_noUnshuffle(xs, perm) ==
    Forward(batch_shuffle(xs, perm), param["backbone_momentum"],
            param["projection_head_momentum"], TRUE)

\* training_step: shuffle, key network, unshuffle
KeyBranch(xs, perm) ==
    batch_unshuffle(
        Forward(batch_shuffle(xs, perm), param["backbone_momentum"],
                param["projection_head_momentum"], TRUE),
        perm)

MocoKeys ==
    /\ pc = "keys"
    /\ shuffle' \in Permutations(1..Len(x_k))
    /\ k' = KeyBranch(x_k, shuffle')
    /\ bn_tracked' = Tracked("backbone_momentum")
    /\ pc' = "criterion"
    /\ UNCHANGED <<valvars, memory_bank_size, batch_size, param, requires_grad, grad,
                   training, optim_params, bank_size, bank, global_step,
                   x_q, x_k, q, negatives, loss, ema_calls, key_before,
                   inserted>>

\* the criterion called with its arguments swapped
CriterionCall_swapped == NTXentLoss(k, q, bank, bank_size)

\* training_step: loss = self.criterion(q, k); log; return loss
CriterionCall == NTXentLoss(q, k, bank, bank_size)

\* the criterion evaluated a second time in the same step
MocoCriterion_twice ==
    LET first == NTXentLoss(q, k, bank, bank_size)
        second == NTXentLoss(q, k, first.bank, bank_size)
    IN  /\ pc = "criterion"
        /\ negatives' = second.negatives
        /\ loss' = second.loss
        /\ bank' = second.bank
        /\ inserted' = inserted \o k \o k
        /\ shuffle' = <<>>
        /\ pc' = "backward"
        /\ UNCHANGED <<valvars, memory_bank_size, batch_size, param,
                       requires_grad, grad, training, bn_tracked, optim_params,
                       bank_size, global_step, x_q, x_k, q, k, ema_calls,
                       key_before>>

MocoCriterion ==
    /\ pc = "criterion"
    /\ negatives' = CriterionCall.negatives
    /\ loss' = CriterionCall.loss
    /\ bank' = CriterionCall.bank
    /\ inserted' = inserted \o k
    /\ shuffle' = <<>>
    /\ pc' = "backward"
    /\ UNCHANGED <<valvars, memory_bank_size, batch_size, param, requires_grad, grad,
                   training, bn_tracked, optim_params, bank_size, global_step,
                   x_q, x_k, q, k, ema_calls, key_before>>

\* loss.backward(): .grad of every parameter of the graph that tracks
\* gradients is filled; a non-finite loss gives non-finite gradients
GradChoices(graph, l) ==
    LET tracked == {n \in graph : requires_grad[n]}
    IN  IF l = "nan" THEN {[n \in tracked |-> NaN]} ELSE [tracked -> Deltas]

Backpropagated(g) ==
    [n \in DOMAIN grad |-> IF n \in DOMAIN g THEN g[n] ELSE grad[n]]

\* the MoCo trainer: backward pass of the loss training_step returned
MocoBackward ==
    /\ pc = "backward"
    /\ \E g \in GradChoices(MocoModules, loss) : grad' = Backpropagated(g)
    /\ pc' = "optimizer_step"
    /\ UNCHANGED <<valvars, memory_bank_size, batch_size, param, requires_grad,
                   training, bn_tracked, optim_params, bank_size, bank,
                   global_step, x_q, x_k, q, k, negatives, loss, shuffle,
                   ema_calls, key_before, inserted>>

\* SGD.step(): every registered parameter that has a gradient moves by it
\* (the gradient of the model is the whole step: learning rate, momentum and
\* weight decay included); a parameter whose .grad is None is skipped
SGDStep ==
    [n \in DOMAIN param |->
        IF n \in optim_params /\ grad[n] # None
        THEN RSub(param[n], grad[n]) ELSE param[n]]

MocoOptimizerStep ==
    /\ pc = "optimizer_step"
    /\ param' = SGDStep
    /\ global_step' = global_step + 1
    /\ pc' = IF global_step + 1 >= MaxSteps THEN "fitted" ELSE "fetch"
    /\ UNCHANGED <<valvars, memory_bank_size, batch_size, requires_grad, grad,
                   training, bn_tracked, optim_params, bank_size, bank, x_q,
                   x_k, q, k, negatives, loss, shuffle, ema_calls, key_before,
                   inserted>>

\* ---- model.eval(); classifier = Classifier(model.backbone) --------------------
ClassifierModules == {"backbone", "fc"}

Classifier_init ==
    /\ pc = "fitted"
    /\ param' = [n \in MocoModules \cup {"fc"} |->
                    IF n = "fc" THEN Zero ELSE param[n]]
    /\ requires_grad' =
           deactivate_requires_grad(
               [n \in MocoModules \cup {"fc"} |->
                   IF n = "fc" THEN TRUE ELSE requires_grad[n]],
               {"backbone"})
    /\ grad' = [n \in MocoModules \cup {"fc"} |->
                   IF n = "fc" THEN None ELSE grad[n]]
    /\ training' = [n \in MocoModules \cup {"fc"} |-> n = "fc"]
    /\ pc' = "classifier"
    /\ UNCHANGED <<valvars, memory_bank_size, batch_size, bn_tracked,
                   optim_params, bank_size, bank, global_step, x_q, x_k, q, k,
                   negatives, loss, shuffle, ema_calls, key_before, inserted>>

\* ---- Classifier.configure_optimizers: torch.optim.SGD(self.fc.parameters()) ---
ClassifierConfigureOptimizers == {"fc"}

\* ---- trainer.fit(classifier, dataloader_train_classifier, dataloader_test) ----
\* a new trainer; it puts the module and all its children in training mode and
\* starts with a validation pass (the sanity check)
ClassifierFit ==
    /\ pc = "classifier"
    /\ optim_params' = ClassifierConfigureOptimizers
    /\ training' = [n \in DOMAIN training |->
                       IF n \in ClassifierModules THEN TRUE ELSE training[n]]
    /\ global_step' = 0
    /\ val_due' = TRUE
    /\ pc' = "cls_loop"
    /\ UNCHANGED <<memory_bank_size, batch_size, param, requires_grad, grad,
                   bn_tracked, bank_size, bank, x_q, x_k, q, k, negatives,
                   loss, shuffle, ema_calls, key_before, inserted, outputs,
                   val_acc>>

\* Classifier.training_step: forward through backbone and fc, cross entropy
Classifier_training_step ==
    /\ pc = "cls_loop"
    /\ global_step < MaxClsSteps
    /\ bn_tracked' = Tracked("backbone")
    /\ loss' = IF IsFinite(param["backbone"]) /\ IsFinite(param["fc"])
               THEN "finite" ELSE "nan"
    /\ pc' = "cls_backward"
    /\ UNCHANGED <<valvars, memory_bank_size, batch_size, param, requires_grad,
                   grad, training, optim_params, bank_size, bank, global_step,
                   x_q, x_k, q, k, negatives, shuffle, ema_calls, key_before,
                   inserted>>

ClassifierBackward ==
    /\ pc = "cls_backward"
    /\ \E g \in GradChoices(ClassifierModules, loss) : grad' = Backpropagated(g)
    /\ pc' = "cls_optimizer_step"
    /\ UNCHANGED <<valvars, memory_bank_size, batch_size, param, requires_grad,
                   training, bn_tracked, optim_params, bank_size, bank,
                   global_step, x_q, x_k, q, k, negatives, loss, shuffle,
                   ema_calls, key_before, inserted>>

ClassifierOptimizerStep ==
    /\ pc = "cls_optimizer_step"
    /\ param' = SGDStep
    /\ global_step' = global_step + 1
    /\ val_due' = TRUE
    /\ pc' = "cls_loop"
    /\ UNCHANGED <<memory_bank_size, batch_size, requires_grad, grad, training,
                   bn_tracked, optim_params, bank_size, bank, x_q, x_k, q, k,
                   negatives, loss, shuffle, ema_calls, key_before, inserted,
                   outputs, val_acc>>

\* the trainer enters a validation pass: evaluation mode for the whole module
ValidationStart ==
    /\ pc = "cls_loop"
    /\ val_due
    /\ training' = [n \in DOMAIN training |->
                       IF n \in ClassifierModules THEN FALSE ELSE training[n]]
    /\ outputs' = <<>>
    /\ pc' = "cls_val"
    /\ UNCHANGED <<memory_bank_size, batch_size, param, requires_grad, grad,
                   bn_tracked, optim_params, bank_size, bank, global_step,
                   x_q, x_k, q, k, negatives, loss, shuffle, ema_calls,
                   key_before, inserted, val_due, val_acc>>

\* dataloader_test has drop_last=False: only the last batch may be short
PassMayContinue ==
    /\ Len(outputs) < MaxValBatches
    /\ \A i \in 1..Len(outputs) : outputs[i][1] = batch_size

\* Classifier.validation_step: forward, argmax, return (num, correct)
Classifier_validation_step ==
    /\ pc = "cls_val"
    /\ PassMayContinue
    /\ \E num \in 1..batch_size : \E correct \in 0..num :
          outputs' = Append(outputs, <<num, correct>>)
    /\ bn_tracked' = Tracked("backbone")
    /\ UNCHANGED <<pc, memory_bank_size, batch_size, param, requires_grad,
                   grad, training, optim_params, bank_size, bank, global_step,
                   x_q, x_k, q, k, negatives, loss, shuffle, ema_calls,
                   key_before, inserted, val_due, val_acc>>

RECURSIVE Total(_, _)
Total(outs, field) ==
    IF outs = <<>> THEN 0 ELSE Head(outs)[field] + Total(Tail(outs), field)

\* the mean of the per-batch accuracies logged instead
RECURSIVE SumOfAccuracies(_)
SumOfAccuracies(outs) ==
    IF outs = <<>> THEN Zero
    ELSE RAdd(Rat(Head(outs)[2], Head(outs)[1]), SumOfAccuracies(Tail(outs)))

Classifier_validation_epoch_end_batchMean ==
    /\ pc = "cls_val"
    /\ val_acc' = IF outputs # <<>>
                  THEN RMul(SumOfAccuracies(outputs), Rat(1, Len(outputs)))
                  ELSE val_acc
    /\ training' = [n \in DOMAIN training |->
                       IF n \in ClassifierModules THEN TRUE ELSE training[n]]
    /\ val_due' = FALSE
    /\ outputs' = <<>>
    /\ pc' = "cls_loop"
    /\ UNCHANGED <<memory_bank_size, batch_size, param, requires_grad, grad,
                   bn_tracked, optim_params, bank_size, bank, global_step,
                   x_q, x_k, q, k, negatives, loss, shuffle, ema_calls,
                   key_before, inserted>>

\* Classifier.validation_epoch_end(outputs), then back to training mode
Classifier_validation_epoch_end ==
    /\ pc = "cls_val"
    /\ val_acc' = IF outputs # <<>>
                  THEN Rat(Total(outputs, 2), Total(outputs, 1))
                  ELSE val_acc
    /\ training' = [n \in DOMAIN training |->
                       IF n \in ClassifierModules THEN TRUE ELSE training[n]]
    /\ val_due' = FALSE
    /\ outputs' = <<>>
    /\ pc' = "cls_loop"
    /\ UNCHANGED <<memory_bank_size, batch_size, param, requires_grad, grad,
                   bn_tracked, optim_params, bank_size, bank, global_step,
                   x_q, x_k, q, k, negatives, loss, shuffle, ema_calls,
                   key_before, inserted>>

\* ---- MoCo training: model = MocoModel(); trainer.fit(model, ...) --------------
Next ==
    \/ MocoModel_init
    \/ MocoFit
    \/ MocoFetchBatch
    \/ MocoUpdateMomentum
    \/ MocoQueries
    \/ MocoKeys
    \/ MocoCriterion
    \/ MocoBackward
    \/ MocoOptimizerStep

Spec == Init /\ [][Next]_vars

\* ---- the whole notebook: MoCo training, then the classifier -----------------
\* One MoCo run per batch size (no memory bank, which the classifier never
\* reads; finite embeddings, the identity shuffle, the same gradient step
\* everywhere) leads to the trained model the classifier consumes.
OneRun ==
    /\ memory_bank_size <= 0
    /\ AllFinite(q)
    /\ \A i \in DOMAIN shuffle : shuffle[i] = i
    /\ \A n \in DOMAIN grad : grad[n] \in {None, One}

MocoTraining == Next /\ OneRun'

ClassifierNext ==
    \/ MocoTraining
    \/ Classifier_init
    \/ ClassifierFit
    \/ Classifier_training_step
    \/ ClassifierBackward
    \/ ClassifierOptimizerStep
    \/ ValidationStart
    \/ Classifier_validation_step
    \/ Classifier_validation_epoch_end

SpecClassifier == Init /\ [][ClassifierNext]_vars

\* ==== properties ==============================================================
\* positions of the MoCo trainer once the loop runs
BeforeCriterion == {"fetch", "update_momentum", "queries", "keys", "criterion"}
AfterCriterion == {"backward", "optimizer_step"}

Min(a, b) == IF a < b THEN a ELSE b

Imgs(embs) == [i \in 1..Len(embs) |-> embs[i].img]

\* 0.99 * old + 0.01 * online
Blend(old, online) ==
    RAdd(RMul(Rat(99, 100), old), RMul(Rat(1, 100), online))

\* C1: once the inserted key batches sum to more than the capacity, the bank
\* holds exactly memory_bank_size vectors, and they are the memory_bank_size
\* most recently inserted key embeddings, in insertion order.
C1_MemoryBankFIFO ==
    pc \notin {"notebook", "error"} =>
        /\ Len(bank) <= memory_bank_size
        /\ Len(inserted) > memory_bank_size =>
              /\ Len(bank) = memory_bank_size
              /\ \A i \in 1..memory_bank_size :
                    /\ bank[i] = inserted[Len(inserted) - memory_bank_size + i]
                    /\ bank[i].view = "k"

\* batches of sizes [4,4,4] into capacity 6: the 2nd half of batch 2, then batch 3
C1_Witness ==
    /\ batch_size = 4
    /\ memory_bank_size = 6
    /\ Len(inserted) = 12
    /\ Imgs(bank) = <<7, 8, 9, 10, 11, 12>>

\* C2: right after the momentum update of a training step every key parameter
\* equals 0.99 * its old value + 0.01 * the query parameter, for the backbone
\* and the projection head alike; the key parameters never track gradients;
\* and with m = 0 the update gives the query parameter itself.
C2_MomentumUpdate ==
    /\ \A n \in KeyModules \cap DOMAIN requires_grad : ~requires_grad[n]
    /\ pc = "queries" =>
          \A n \in KeyModules :
             /\ param[n] = Blend(key_before[n], param[QueryOf(n)])
             /\ update_momentum(param[QueryOf(n)], key_before[n], Zero)
                   = param[QueryOf(n)]

C2_Witness ==
    /\ pc = "queries"
    /\ key_before["backbone_momentum"] = <<1, 100>>
    /\ param["backbone"] = <<2, 1>>
    /\ param["backbone_momentum"] = <<299, 10000>>
    /\ ~requires_grad["backbone_momentum"]

\* C3 as stated: no key-side parameter is registered with the optimizer.
C3_OnlyQuerySideRegistered == optim_params \cap KeyModules = {}

\* C3 amended: the key-side parameters never hold a gradient, and no step
\* other than the momentum update changes them.
C3_KeySideOnlyMomentum ==
    [][(/\ \A n \in KeyModules \cap DOMAIN grad' : grad'[n] = None
        /\ \A n \in KeyModules \cap DOMAIN param :
              (param'[n] # param[n] => pc = "update_momentum"))]_vars

C3_Witness ==
    /\ pc = "fetch"
    /\ global_step = 1
    /\ KeyModules \subseteq optim_params
    /\ param["backbone_momentum"] = Zero
    /\ param["backbone"] = One

\* C4: unshuffling with the permutation batch_shuffle drew restores the sample
\* order, so the key embedding at index i handed to the loss and inserted into
\* the bank comes from the same image as the query embedding at index i.
C4_ShuffleRoundTrip ==
    /\ pc = "criterion" =>
          /\ shuffle \in Permutations(1..batch_size)
          /\ batch_unshuffle(batch_shuffle(x_k, shuffle), shuffle) = x_k
          /\ Len(k) = batch_size /\ Len(q) = batch_size
          /\ \A i \in 1..batch_size :
                k[i].img = q[i].img /\ k[i].img = x_k[i].img /\ k[i].view = "k"
    /\ pc = "backward" =>
          /\ Imgs(k) = Imgs(q)
          /\ LastN(inserted, batch_size) = k

C4_Witness ==
    /\ pc = "criterion"
    /\ shuffle = <<2, 3, 1>>
    /\ Imgs(k) = Imgs(q)
    /\ Imgs(q) = <<4, 5, 6>>

\* C5: in every training step the momentum update has run exactly once when
\* the key network runs, and the key network runs with key parameters that
\* blend in the query parameters left by the previous optimizer step.
C5_MomentumBeforeKeyForward ==
    /\ pc \in {"fetch", "update_momentum", "fitted"} =>
          \A n \in KeyModules : ema_calls[n] = global_step
    /\ pc \in {"queries", "keys", "criterion"} \cup AfterCriterion =>
          \A n \in KeyModules : ema_calls[n] = global_step + 1
    /\ pc = "criterion" =>
          \A i \in 1..batch_size :
             /\ k[i].bb = Blend(key_before["backbone_momentum"], param["backbone"])
             /\ k[i].ph = Blend(key_before["projection_head_momentum"],
                                param["projection_head"])

C5_Witness ==
    /\ pc = "criterion"
    /\ global_step = 1
    /\ param["backbone"] = One
    /\ k[1].bb = <<1, 100>>

\* C6: the loss of a step reads the bank as the earlier steps left it, the
\* keys of the step are appended after that, and the bank is written once
\* per step.
C6_BankReadBeforeWrite ==
    /\ pc \in BeforeCriterion \cup {"fitted"} =>
          Len(inserted) = global_step * batch_size
    /\ pc \in AfterCriterion =>
          /\ Len(inserted) = (global_step + 1) * batch_size
          /\ memory_bank_size >= batch_size => LastN(bank, batch_size) = k
          /\ \A i \in 1..batch_size :
                LET read == SubSeq(negatives[i], batch_size, Len(negatives[i]))
                IN  /\ read = LastN(SubSeq(inserted, 1, global_step * batch_size),
                                    memory_bank_size)
                    /\ \A j \in 1..Len(read) :
                          read[j].img <= global_step * batch_size

C6_Witness ==
    /\ pc = "backward"
    /\ global_step = 1
    /\ batch_size = 2
    /\ memory_bank_size = 3
    /\ Imgs(negatives[1]) = <<4, 1, 2>>
    /\ Imgs(bank) = <<2, 3, 4>>

\* C7: the negatives of sample i are the other keys of the batch and the real
\* content of the bank, at most memory_bank_size vectors; the bank starts
\* empty, is never padded, and with capacity 0 only the batch supplies negatives.
C7_NegativePool ==
    /\ pc = "constructed" => bank = <<>>
    /\ pc \in AfterCriterion =>
          \A i \in 1..batch_size :
             LET others == [j \in 1..(batch_size - 1) |->
                               k[IF j < i THEN j ELSE j + 1]]
                 stored == Min(memory_bank_size, global_step * batch_size)
             IN  /\ Len(negatives[i]) = batch_size - 1 + stored
                 /\ SubSeq(negatives[i], 1, batch_size - 1) = others
                 /\ \A j \in batch_size..Len(negatives[i]) :
                       /\ negatives[i][j].view = "k"
                       /\ \E m \in 1..(global_step * batch_size) :
                             inserted[m] = negatives[i][j]
                 /\ (global_step = 0 \/ memory_bank_size = 0) =>
                       negatives[i] = others

\* second step, capacity 6: two stored keys are used, nothing else
C7_Witness ==
    /\ pc = "backward"
    /\ global_step = 1
    /\ batch_size = 2
    /\ memory_bank_size = 6
    /\ Imgs(negatives[2]) = <<3, 1, 2>>

C9_NonFiniteLossAborts ==
    loss = "nan" => pc \notin BeforeCriterion \cup AfterCriterion \cup {"fitted"}

ClassifierPositions ==
    {"cls_loop", "cls_backward", "cls_optimizer_step", "cls_val"}

\* C10: no classifier training or validation step changes the backbone, its
\* parameters or its batch-norm statistics; of the parameters only fc changes.
C10_BackboneFrozen ==
    [][(pc \in ClassifierPositions) =>
          (/\ bn_tracked'["backbone"] = bn_tracked["backbone"]
           /\ \A n \in DOMAIN param \ {"fc"} : param'[n] = param[n])]_vars

\* sum of one component of the validation results, by index
RECURSIVE SumUpTo(_, _, _)
SumUpTo(outs, field, n) ==
    IF n = 0 THEN 0 ELSE outs[n][field] + SumUpTo(outs, field, n - 1)

\* C11: at the end of a validation pass with results, the value logged as
\* val_acc is (sum of correct) / (sum of num) over the whole pass; at the end
\* of a pass without results nothing is logged and nothing is divided; and
\* val_acc is logged nowhere else.
C11_ValAccAggregation ==
    [][(/\ (pc = "cls_val" /\ pc' = "cls_loop" /\ outputs # <<>>) =>
              (/\ val_acc'[2] > 0
               /\ val_acc'[1] * SumUpTo(outputs, 1, Len(outputs))
                     = val_acc'[2] * SumUpTo(outputs, 2, Len(outputs)))
        /\ (pc = "cls_val" /\ pc' = "cls_loop" /\ outputs = <<>>) =>
              val_acc' = val_acc
        /\ val_acc' # NaN
        /\ val_acc' # val_acc =>
              (pc = "cls_val" /\ pc' = "cls_loop" /\ outputs # <<>>))]_vars

\* batch_size 4 and val_acc 3/5: a full batch and a short last one, e.g.
\* (4, 3) and (1, 0), whose per-batch accuracies average 3/8
C11_Witness ==
    /\ pc = "cls_loop"
    /\ global_step = 0
    /\ batch_size = 4
    /\ outputs = <<>>
    /\ val_acc = <<3, 5>>

====
